---- MODULE Spec2Model ----
(***************************************************************************)
(* KradleVerse: the observation pipeline and the session supervisor.       *)
(*                                                                         *)
(*   Spec           the daemon's observation log (observations.jsonl):     *)
(*                  observer.py log_observation appending, concurrent      *)
(*                  get_observations.py invocations draining or peeking.   *)
(*   SpecDaemon     the life of the observer daemon: start, init, relayed  *)
(*                  events, the inactivity watchdog, the game-over timer,  *)
(*                  signals.  SpecDaemonFair adds the scheduling fairness. *)
(*   SpecStream     kradleverse.py: join, the curl stream producer, the    *)
(*                  stream file, state.json and observe invocations.       *)
(***************************************************************************)
EXTENDS Integers, Sequences, FiniteSets, TLC

(***************************************************************************)
(* Bounds of the model.                                                    *)
(***************************************************************************)
\* events the daemon relays in one run
MaxRecords == 2
\* lines the stream producer writes to stream.sse
MaxLines == 2
\* seconds by which one step of the clock advances
TickSecs == 30
\* the daemon relays no event after this many seconds
MaxEventTime == 60
\* the timeout of a wait of join, in units of the sleep of one of its polls
WaitTimeout == 2

(***************************************************************************)
(* Program constants.                                                      *)
(***************************************************************************)
INACTIVITY_TIMEOUT == 300
WatchdogSleep == 30
GameOverGrace == 2
RunIdRetries == 10

Readers == {"r1", "r2"}
Observers == {"o1", "o2"}
Sessions == {"s1", "s2"}
None == "none"

VARIABLES
    \* ---- observations.jsonl and the processes that touch it
    obsFile,      \* the lines of the file, oldest first
    obsExists,    \* whether the file exists
    lockEx,       \* holder of the exclusive flock, or None
    lockSh,       \* holders of the shared flock
    nextId,       \* serial number of the next relayed event
    wpc,          \* the daemon's position inside on_event / log_observation
    wrec,         \* the entry on_event is logging
    wbuf,         \* bytes written to the file object and not yet flushed to the file
    rpc,          \* each reader invocation's position
    rclear,       \* its clear argument (FALSE: --peek)
    robs,         \* the observations it has read
    repoch,       \* history: logEpoch when it read
    drained,      \* history: records returned by clearing drains, in order
    written,      \* history: ids of the records whose bytes reached the file
    logEpoch,     \* history: appends and clearing truncations so far
    \* ---- the observer daemon
    dpc,          \* the process: "off", "starting", "serving", "cleanup", "exited", "killed"
    pidFile,      \* whether observer.pid exists
    now,          \* the clock, in seconds
    last_observation_time,
    wakeAt,       \* when the watchdog's sleep(30) ends
    game_over,    \* the threading.Event
    timerAt,      \* when the game-over Timer fires, or -1
    exitCause,    \* history: why the daemon stopped
    \* ---- kradleverse.py
    streamFile,   \* stream.sse: a sequence of half-lines
    stateJson,    \* state.json of the session, or NoState
    spid,         \* the curl subprocess: "none", "running", "dead"
    jpc,          \* join's position
    jexit,        \* join's exit code, -1 while it runs
    jreason,      \* history: why join exited
    jrun,         \* join's locals: kv_run_id, kradle_run_id (present or not), retries
                  \* of the run-id poll, id of the initial_state record found,
                  \* elapsed: time.time() - start of the wait it is in; and the
                  \* history of the assignment wait: the answer of its last
                  \* poll, whether a poll has failed
    joffset,      \* join's local offset
    jseen,        \* history: ids of the stream records join has parsed
    opc,          \* each observe invocation's position
    opeek,        \* its --peek flag
    ostate,       \* the state it loaded
    onew,         \* the new_offset of its read
    oout,         \* the ids of the records in its output
    delivered,    \* history: ids printed by non-peeking observes
    delivered2,   \* history: ids printed by more than one non-peeking observe
    \* ---- the sessions directory and the commands that name a session
    rootDir,      \* whether SESSIONS_DIR exists
    sessDir,      \* per session: whether its directory exists
    doc,          \* per session: state.json, "absent", "partial" (opened for
                  \* writing and not yet written: not valid JSON) or "valid"
    docPid,       \* per session: whether the valid document holds a stream_pid
    proc,         \* per session: the process that has the pid join got for its
                  \* curl: "none", "running" (curl), "dead" (no process)
                  \* or "reused" (another process of the user)
    jp,           \* per session: how far its join has come
    cpc,          \* cleanup's position
    ctodo,        \* the session directories cleanup has still to visit
    stopResult,   \* history: how the last stop_observation_stream ended
    apc,          \* the act invocation's position
    aarg,         \* its script and session
    aloaded,      \* history: the state document as it found it
    aexit,        \* its exit code, -1 while it runs
    forwarded,    \* history: whether it sent an action to the remote run
    tpc,          \* the status invocation's position
    tsess,        \* its session argument, or None
    ttodo,        \* the session directories a listing has still to visit
    listed,       \* the sessions the listing has collected
    texit,        \* its exit code, -1 while it runs
    tloaded,      \* history: the state document status <id> found
    \* ---- the text a reader is given and what it prints
    fscript,      \* the reader: "get_observations.py" or "kradleverse.py"
    flines,       \* the lines of observations.jsonl, or the data lines of stream.sse
    fread,        \* history: the lines as the reader found them
    fclear,       \* whether the reader was to advance (no --peek)
    fout          \* what the reader printed, or NoOut

logVars == <<obsFile, obsExists, lockEx, lockSh, nextId, wpc, wrec, wbuf,
             rpc, rclear, robs, repoch, drained, written, logEpoch>>
daemonVars == <<dpc, pidFile, now, last_observation_time, wakeAt, game_over,
                timerAt, exitCause>>
streamVars == <<streamFile, stateJson, spid, jpc, jexit, jreason, jrun, joffset,
                jseen, opc, opeek, ostate, onew, oout, delivered, delivered2>>
sessVars == <<rootDir, sessDir, doc, docPid, proc, jp, cpc, ctodo, stopResult,
              apc, aarg, aloaded, aexit, forwarded, tpc, tsess, ttodo, listed, texit,
              tloaded>>
formatVars == <<fscript, flines, fread, fclear, fout>>
restVars == <<sessVars, formatVars>>
vars == <<logVars, daemonVars, streamVars, restVars>>

(***************************************************************************)
(* Helpers.                                                                *)
(***************************************************************************)
Range(s) == {s[i] : i \in 1..Len(s)}
Ids(s) == [i \in 1..Len(s) |-> s[i].id]
IsPrefix(s, t) == Len(s) <= Len(t) /\ SubSeq(t, 1, Len(s)) = s

(***************************************************************************)
(* observer.py: the relayed events and log_observation.                    *)
(***************************************************************************)
\* the event kinds on_event tests for
GameOverKinds == {"gameover", "game_over"}
EventKinds == {"chat"} \cup GameOverKinds

\* no entry in hand
NoRec == [id |-> 0, event |-> "chat", big |-> FALSE]

\* the daemon's threads run while the process is alive
Alive == dpc \in {"serving", "cleanup"}

\* on_event, lines 161-170: the activity timestamp is refreshed and the entry
\* built.  big: the entry's JSON line is larger than the file object's buffer.
OnEvent(kind, big) ==
    /\ dpc = "serving"
    /\ wpc = "idle"
    /\ nextId <= MaxRecords
    /\ now <= MaxEventTime
    /\ last_observation_time' = now
    /\ wrec' = [id |-> nextId, event |-> kind, big |-> big]
    /\ nextId' = nextId + 1
    /\ wpc' = "entry"
    /\ UNCHANGED <<obsFile, obsExists, lockEx, lockSh, wbuf, rpc, rclear, robs,
                   repoch, drained, written, logEpoch>>
    /\ UNCHANGED <<dpc, pidFile, now, wakeAt, game_over, timerAt, exitCause>>
    /\ UNCHANGED <<streamVars, restVars>>

\* log_observation, line 84: open(OBSERVATIONS_FILE, "a") creates the file
LogOpen ==
    /\ Alive
    /\ wpc = "entry"
    /\ obsExists' = TRUE
    /\ wpc' = "open"
    /\ UNCHANGED <<obsFile, lockEx, lockSh, nextId, wrec, wbuf, rpc, rclear, robs,
                   repoch, drained, written, logEpoch>>
    /\ UNCHANGED <<daemonVars, streamVars, restVars>>

\* line 85: flock(LOCK_EX) blocks while any other lock is held
LogLock ==
    /\ Alive
    /\ wpc = "open"
    /\ lockEx = None
    /\ lockSh = {}
    /\ lockEx' = "w"
    /\ wpc' = "locked"
    /\ UNCHANGED <<obsFile, obsExists, lockSh, nextId, wrec, wbuf, rpc, rclear, robs,
                   repoch, drained, written, logEpoch>>
    /\ UNCHANGED <<daemonVars, streamVars, restVars>>

\* what f.write leaves in the file object's buffer: a line that fits the
\* buffer stays there, a larger one is written through at once
Buffered(rec) == IF rec.big THEN <<>> ELSE <<rec>>
WrittenThrough(rec) == IF rec.big THEN <<rec>> ELSE <<>>

\* line 87: f.write(json.dumps(obs_dict) + "\n") on a buffered text file
LogWrite ==
    /\ Alive
    /\ wpc = "locked"
    /\ wbuf' = Buffered(wrec)
    /\ obsFile' = obsFile \o WrittenThrough(wrec)
    /\ written' = written \cup {r.id : r \in Range(WrittenThrough(wrec))}
    /\ logEpoch' = logEpoch + Len(WrittenThrough(wrec))
    /\ wpc' = "written"
    /\ UNCHANGED <<obsExists, lockEx, lockSh, nextId, wrec, rpc, rclear, robs,
                   repoch, drained>>
    /\ UNCHANGED <<daemonVars, streamVars, restVars>>

\* line 89: finally flock(LOCK_UN)
LogUnlock ==
    /\ Alive
    /\ wpc = "written"
    /\ lockEx' = None
    /\ wpc' = "unlocked"
    /\ UNCHANGED <<obsFile, obsExists, lockSh, nextId, wrec, wbuf, rpc, rclear, robs,
                   repoch, drained, written, logEpoch>>
    /\ UNCHANGED <<daemonVars, streamVars, restVars>>

\* a close that drops what is still buffered
FlushLost(buf) == <<>>

\* what leaving the with block does with the buffer: close() flushes it
FlushOnClose(buf) == buf

\* line 84: the with block ends, the file is closed and its buffer is
\* appended to the file (O_APPEND: at the file's current end)
LogClose ==
    /\ Alive
    /\ wpc = "unlocked"
    /\ obsFile' = obsFile \o FlushOnClose(wbuf)
    /\ written' = written \cup {r.id : r \in Range(FlushOnClose(wbuf))}
    /\ logEpoch' = logEpoch + Len(FlushOnClose(wbuf))
    /\ wbuf' = <<>>
    /\ wpc' = "logged"
    /\ UNCHANGED <<obsExists, lockEx, lockSh, nextId, wrec, rpc, rclear, robs,
                   repoch, drained>>
    /\ UNCHANGED <<daemonVars, streamVars, restVars>>

\* on_event, lines 175-187: on a game-over event the stop flag is set and the
\* Timer that ends the process is started; the inert action is returned
OnEventReturn ==
    /\ Alive
    /\ wpc = "logged"
    /\ IF wrec.event \in GameOverKinds
         THEN /\ game_over' = TRUE
              /\ timerAt' = IF timerAt = -1 THEN now + GameOverGrace ELSE timerAt
         ELSE UNCHANGED <<game_over, timerAt>>
    /\ wpc' = "idle"
    /\ wrec' = NoRec
    /\ UNCHANGED <<obsFile, obsExists, lockEx, lockSh, nextId, wbuf, rpc, rclear,
                   robs, repoch, drained, written, logEpoch>>
    /\ UNCHANGED <<dpc, pidFile, now, last_observation_time, wakeAt, exitCause>>
    /\ UNCHANGED <<streamVars, restVars>>

(***************************************************************************)
(* get_observations.py: main and read_observations.                        *)
(***************************************************************************)
\* main, lines 108-113, and read_observations, lines 36-46: without the file
\* the invocation ends at once; otherwise the file is opened ("r+" to clear,
\* "r" to peek)
ReadStart(r, clear) ==
    /\ rpc[r] = "idle"
    /\ rclear' = [rclear EXCEPT ![r] = clear]
    /\ rpc' = [rpc EXCEPT ![r] = IF obsExists THEN "opened" ELSE "nofile"]
    /\ UNCHANGED <<obsFile, obsExists, lockEx, lockSh, nextId, wpc, wrec, wbuf,
                   robs, repoch, drained, written, logEpoch>>
    /\ UNCHANGED <<daemonVars, streamVars, restVars>>

\* lines 44 and 47: flock(LOCK_EX if clear else LOCK_SH); an exclusive lock
\* waits for every holder, a shared one for the exclusive holder only
ReadLock(r) ==
    /\ rpc[r] = "opened"
    /\ lockEx = None
    /\ IF rclear[r]
         THEN lockSh = {} /\ lockEx' = r /\ UNCHANGED lockSh
         ELSE lockSh' = lockSh \cup {r} /\ UNCHANGED lockEx
    /\ rpc' = [rpc EXCEPT ![r] = "locked"]
    /\ UNCHANGED <<obsFile, obsExists, nextId, wpc, wrec, wbuf, rclear, robs,
                   repoch, drained, written, logEpoch>>
    /\ UNCHANGED <<daemonVars, streamVars, restVars>>

\* lines 49-55: every line of the file up to its end is read
ReadLines(r) ==
    /\ rpc[r] = "locked"
    /\ robs' = [robs EXCEPT ![r] = obsFile]
    /\ repoch' = [repoch EXCEPT ![r] = logEpoch]
    /\ rpc' = [rpc EXCEPT ![r] = "read"]
    /\ UNCHANGED <<obsFile, obsExists, lockEx, lockSh, nextId, wpc, wrec, wbuf,
                   rclear, drained, written, logEpoch>>
    /\ UNCHANGED <<daemonVars, streamVars, restVars>>

\* a drain that truncates whatever its clear argument
AfterDrainAlways(clear, file) == <<>>

\* lines 57-60: if clear: f.seek(0); f.truncate()
AfterDrain(clear, file) == IF clear THEN <<>> ELSE file

\* lines 57-62: the file is truncated if asked for, and the lock released
ReadClearUnlock(r) ==
    /\ rpc[r] = "read"
    /\ obsFile' = AfterDrain(rclear[r], obsFile)
    /\ drained' = IF rclear[r] THEN drained \o Ids(robs[r]) ELSE drained
    /\ logEpoch' = IF rclear[r] /\ obsFile # <<>> THEN logEpoch + 1 ELSE logEpoch
    /\ lockEx' = IF lockEx = r THEN None ELSE lockEx
    /\ lockSh' = lockSh \ {r}
    /\ rpc' = [rpc EXCEPT ![r] = "returned"]
    /\ UNCHANGED <<obsExists, nextId, wpc, wrec, wbuf, rclear, robs, repoch, written>>
    /\ UNCHANGED <<daemonVars, streamVars, restVars>>

\* main, lines 113-129 (or 109-111 without the file): the output is printed
\* and the invocation ends
ReadReturn(r) ==
    /\ rpc[r] \in {"returned", "nofile"}
    /\ rpc' = [rpc EXCEPT ![r] = "idle"]
    /\ rclear' = [rclear EXCEPT ![r] = FALSE]
    /\ robs' = [robs EXCEPT ![r] = <<>>]
    /\ repoch' = [repoch EXCEPT ![r] = -1]
    /\ UNCHANGED <<obsFile, obsExists, lockEx, lockSh, nextId, wpc, wrec, wbuf,
                   drained, written, logEpoch>>
    /\ UNCHANGED <<daemonVars, streamVars, restVars>>

(***************************************************************************)
(* Initial states.                                                         *)
(***************************************************************************)
LogInit ==
    /\ obsFile = <<>>
    /\ obsExists = FALSE
    /\ lockEx = None
    /\ lockSh = {}
    /\ nextId = 1
    /\ wpc = "idle"
    /\ wrec = NoRec
    /\ wbuf = <<>>
    /\ rpc = [r \in Readers |-> "idle"]
    /\ rclear = [r \in Readers |-> FALSE]
    /\ robs = [r \in Readers |-> <<>>]
    /\ repoch = [r \in Readers |-> -1]
    /\ drained = <<>>
    /\ written = {}
    /\ logEpoch = 0

\* the daemon before it is started / while it serves
DaemonInit(running) ==
    /\ dpc = IF running THEN "serving" ELSE "off"
    /\ pidFile = running
    /\ now = 0
    /\ last_observation_time = 0
    /\ wakeAt = IF running THEN WatchdogSleep ELSE -1
    /\ game_over = FALSE
    /\ timerAt = -1
    /\ exitCause = None

\* no state.json
NoState == [exists |-> FALSE, kradle_run_id |-> FALSE, stream_pid |-> FALSE,
            stream_offset |-> 0, task |-> FALSE, status |-> "none"]

StreamInit ==
    /\ streamFile = <<>>
    /\ stateJson = NoState
    /\ spid = "none"
    /\ jpc = "start"
    /\ jexit = -1
    /\ jreason = None
    /\ jrun = [kv_run_id |-> FALSE, kradle_run_id |-> FALSE, retries |-> 0,
               initial_state |-> 0, elapsed |-> 0, answer |-> None,
               failed |-> FALSE]
    /\ joffset = 0
    /\ jseen = {}
    /\ opc = [o \in Observers |-> "idle"]
    /\ opeek = [o \in Observers |-> FALSE]
    /\ ostate = [o \in Observers |-> NoState]
    /\ onew = [o \in Observers |-> 0]
    /\ oout = [o \in Observers |-> <<>>]
    /\ delivered = {}
    /\ delivered2 = {}

(***************************************************************************)
(* The observation log: a serving daemon and the reader invocations.       *)
(***************************************************************************)
\* no session has been created and no command is running
SessInit ==
    /\ rootDir = FALSE
    /\ sessDir = [s \in Sessions |-> FALSE]
    /\ doc = [s \in Sessions |-> "absent"]
    /\ docPid = [s \in Sessions |-> FALSE]
    /\ proc = [s \in Sessions |-> "none"]
    /\ jp = [s \in Sessions |-> "idle"]
    /\ cpc = "idle"
    /\ ctodo = {}
    /\ stopResult = None
    /\ apc = "idle"
    /\ aarg = None
    /\ aloaded = None
    /\ aexit = -1
    /\ forwarded = FALSE
    /\ tpc = "idle"
    /\ tsess = None
    /\ ttodo = {}
    /\ listed = {}
    /\ texit = -1
    /\ tloaded = None

\* what a reader prints: NoOut before it has run
NoOut == [kind |-> "none"]

\* the reader is one of scripts and has not run; the file is empty
FormatInit(scripts) ==
    /\ fscript \in scripts
    /\ flines = <<>>
    /\ fread = <<>>
    /\ fclear = FALSE
    /\ fout = NoOut

RestInit == SessInit /\ FormatInit({None})

Init == LogInit /\ DaemonInit(TRUE) /\ StreamInit /\ RestInit

Next ==
    \/ \E kind \in EventKinds, big \in BOOLEAN : OnEvent(kind, big)
    \/ LogOpen
    \/ LogLock
    \/ LogWrite
    \/ LogUnlock
    \/ LogClose
    \/ OnEventReturn
    \/ \E r \in Readers, clear \in BOOLEAN : ReadStart(r, clear)
    \/ \E r \in Readers : ReadLock(r)
    \/ \E r \in Readers : ReadLines(r)
    \/ \E r \in Readers : ReadClearUnlock(r)
    \/ \E r \in Readers : ReadReturn(r)

Spec == Init /\ [][Next]_vars

(***************************************************************************)
(* observer.py: the life of the daemon process.                            *)
(***************************************************************************)
\* the clock stops once every wait of the daemon has had time to end
MaxTime == MaxEventTime + INACTIVITY_TIMEOUT + WatchdogSleep + TickSecs

\* the process exists
Live == dpc \in {"starting", "serving", "cleanup", "handler"}
Gone == dpc \in {"exited", "killed"}

\* run_observer, lines 95-127: the pid file is written, the activity
\* timestamp set, the watchdog thread started, the old log removed
Start ==
    /\ dpc = "off"
    /\ dpc' = "starting"
    /\ pidFile' = TRUE
    /\ last_observation_time' = now
    /\ wakeAt' = now + WatchdogSleep
    /\ obsExists' = FALSE
    /\ obsFile' = <<>>
    /\ UNCHANGED <<lockEx, lockSh, nextId, wpc, wrec, wbuf, rpc, rclear, robs, repoch,
                   drained, written, logEpoch>>
    /\ UNCHANGED <<now, game_over, timerAt, exitCause>>
    /\ UNCHANGED <<streamVars, restVars>>

\* lines 129-134 and 189-190: the agent is registered and served
Serve ==
    /\ dpc = "starting"
    /\ dpc' = "serving"
    /\ UNCHANGED <<pidFile, now, last_observation_time, wakeAt, game_over, timerAt,
                   exitCause>>
    /\ UNCHANGED <<logVars, streamVars, restVars>>

\* on_init, lines 136-149: joining a run counts as activity
OnInit ==
    /\ dpc = "serving"
    /\ wpc = "idle"
    /\ now <= MaxEventTime
    /\ last_observation_time # now
    /\ last_observation_time' = now
    /\ UNCHANGED <<dpc, pidFile, now, wakeAt, game_over, timerAt, exitCause>>
    /\ UNCHANGED <<logVars, streamVars, restVars>>

\* a thread whose sleep or timer has run out
Due(at) == at # -1 /\ now >= at

\* time passes; a thread that is due runs before the clock moves on
Tick ==
    /\ Live
    /\ now + TickSecs <= MaxTime
    /\ ~Due(wakeAt)
    /\ ~Due(timerAt)
    /\ now' = now + TickSecs
    /\ UNCHANGED <<dpc, pidFile, last_observation_time, wakeAt, game_over, timerAt,
                   exitCause>>
    /\ UNCHANGED <<logVars, streamVars, restVars>>

\* a watchdog that also fires at exactly the timeout
InactiveAtLeast(t, last) == t - last >= INACTIVITY_TIMEOUT

\* check_inactivity, line 112
InactiveTooLong(t, last) == t - last > INACTIVITY_TIMEOUT

\* the first cause of the daemon's end is kept
Cause(c) == IF exitCause = None THEN c ELSE exitCause

\* check_inactivity, lines 108-114, with cleanup_and_exit, line 118: the
\* thread wakes from sleep(30); after too long an inactivity it unlinks the
\* pid file on its way out, otherwise it sleeps again unless the stop flag
\* is set
WatchdogWake ==
    /\ Live
    /\ Due(wakeAt)
    /\ IF InactiveTooLong(now, last_observation_time)
         THEN /\ pidFile' = FALSE
              /\ dpc' = "cleanup"
              /\ exitCause' = Cause("inactivity")
              /\ wakeAt' = -1
         ELSE /\ wakeAt' = IF game_over THEN -1 ELSE now + WatchdogSleep
              /\ UNCHANGED <<pidFile, dpc, exitCause>>
    /\ UNCHANGED <<now, last_observation_time, game_over, timerAt>>
    /\ UNCHANGED <<logVars, streamVars, restVars>>

\* line 180 with cleanup_and_exit, line 118: the Timer started by the
\* game-over event runs out
TimerFire ==
    /\ Live
    /\ Due(timerAt)
    /\ pidFile' = FALSE
    /\ dpc' = "cleanup"
    /\ exitCause' = Cause("gameover")
    /\ timerAt' = -1
    /\ UNCHANGED <<now, last_observation_time, wakeAt, game_over>>
    /\ UNCHANGED <<logVars, streamVars, restVars>>

\* cleanup_and_exit, line 119: os._exit
CleanupExit ==
    /\ dpc = "cleanup"
    /\ dpc' = "exited"
    /\ UNCHANGED <<pidFile, now, last_observation_time, wakeAt, game_over, timerAt,
                   exitCause>>
    /\ UNCHANGED <<logVars, streamVars, restVars>>

\* __main__, lines 202-207: KeyboardInterrupt (SIGINT) or an exception of
\* run_observer reaches the handlers, which unlink the pid file
MainExcept(cause) ==
    /\ dpc \in {"starting", "serving"}
    /\ pidFile' = FALSE
    /\ dpc' = "handler"
    /\ exitCause' = Cause(cause)
    /\ UNCHANGED <<now, last_observation_time, wakeAt, game_over, timerAt>>
    /\ UNCHANGED <<logVars, streamVars, restVars>>

\* __main__, lines 204 and 208: the main thread leaves the script
HandlerExit ==
    /\ dpc = "handler"
    /\ dpc' = "exited"
    /\ UNCHANGED <<pidFile, now, last_observation_time, wakeAt, game_over, timerAt,
                   exitCause>>
    /\ UNCHANGED <<logVars, streamVars, restVars>>

\* SIGTERM: observer.py installs no handler for it (it catches
\* KeyboardInterrupt only), so the process ends at once
Sigterm ==
    /\ Live
    /\ dpc' = "killed"
    /\ exitCause' = Cause("sigterm")
    /\ UNCHANGED <<pidFile, now, last_observation_time, wakeAt, game_over, timerAt>>
    /\ UNCHANGED <<logVars, streamVars, restVars>>

InitDaemon == LogInit /\ DaemonInit(FALSE) /\ StreamInit /\ RestInit

NextDaemon ==
    \/ Start
    \/ Serve
    \/ OnInit
    \/ \E kind \in EventKinds, big \in BOOLEAN : OnEvent(kind, big)
    \/ LogOpen
    \/ LogLock
    \/ LogWrite
    \/ LogUnlock
    \/ LogClose
    \/ OnEventReturn
    \/ Tick
    \/ WatchdogWake
    \/ TimerFire
    \/ CleanupExit
    \/ \E cause \in {"sigint", "error"} : MainExcept(cause)
    \/ HandlerExit
    \/ Sigterm

SpecDaemon == InitDaemon /\ [][NextDaemon]_vars

\* the clock advances, the threads are scheduled and an exit completes
SpecDaemonFair ==
    /\ SpecDaemon
    /\ WF_vars(Tick)
    /\ WF_vars(WatchdogWake)
    /\ WF_vars(TimerFire)
    /\ WF_vars(CleanupExit)
    /\ WF_vars(HandlerExit)

(***************************************************************************)
(* kradleverse.py: the stream file and its producer.                       *)
(***************************************************************************)
\* The lines curl writes.  "comment": a line that carries no payload
\* (": connected", "id: ...", ": keepalive", "event: done", "data: {}");
\* "init": a data line of level init_call; "istate": a data line of level
\* observation whose event is initial_state; "obs": any other data line of
\* level observation.
LineKinds == {"comment", "init", "istate", "obs"}
DataKinds == {"init", "istate", "obs"}
ObservationKinds == {"istate", "obs"}

\* A line reaches the file in one write or in two: "H" is its first part,
\* "T" the rest with the newline.  Offsets count these parts.
Halves(n, kind) == << [id |-> n, kind |-> kind, half |-> "H"],
                     [id |-> n, kind |-> kind, half |-> "T"] >>

LinesWritten == Cardinality({streamFile[i].id : i \in 1..Len(streamFile)})
PartialLine == streamFile # <<>> /\ streamFile[Len(streamFile)].half = "H"

\* curl writes a whole line
StreamWriteLine(kind) ==
    /\ spid = "running"
    /\ ~PartialLine
    /\ LinesWritten < MaxLines
    /\ streamFile' = streamFile \o Halves(LinesWritten + 1, kind)
    /\ UNCHANGED <<stateJson, spid, jpc, jexit, jreason, jrun, joffset, jseen, opc,
                   opeek, ostate, onew, oout, delivered, delivered2>>
    /\ UNCHANGED <<logVars, daemonVars, restVars>>

\* curl writes the first part of a line
StreamWriteHead(kind) ==
    /\ spid = "running"
    /\ ~PartialLine
    /\ LinesWritten < MaxLines
    /\ streamFile' = Append(streamFile, Halves(LinesWritten + 1, kind)[1])
    /\ UNCHANGED <<stateJson, spid, jpc, jexit, jreason, jrun, joffset, jseen, opc,
                   opeek, ostate, onew, oout, delivered, delivered2>>
    /\ UNCHANGED <<logVars, daemonVars, restVars>>

\* curl writes the rest of the line
StreamWriteTail ==
    /\ spid = "running"
    /\ PartialLine
    /\ LET h == streamFile[Len(streamFile)]
       IN streamFile' = Append(streamFile, Halves(h.id, h.kind)[2])
    /\ UNCHANGED <<stateJson, spid, jpc, jexit, jreason, jrun, joffset, jseen, opc,
                   opeek, ostate, onew, oout, delivered, delivered2>>
    /\ UNCHANGED <<logVars, daemonVars, restVars>>

\* the stream ends: curl exits
StreamEnds ==
    /\ spid = "running"
    /\ spid' = "dead"
    /\ UNCHANGED <<streamFile, stateJson, jpc, jexit, jreason, jrun, joffset, jseen,
                   opc, opeek, ostate, onew, oout, delivered, delivered2>>
    /\ UNCHANGED <<logVars, daemonVars, restVars>>

\* the line that starts at part i of raw lies in raw whole
CompleteAt(raw, i) ==
    /\ i < Len(raw)
    /\ raw[i].half = "H"
    /\ raw[i + 1].half = "T"
    /\ raw[i + 1].id = raw[i].id

\* parse_sse_observations: of the text split at newlines, the lines that
\* start with "data: " and hold a JSON object with a "data" key; a line cut
\* at either end is no such line
RECURSIVE DataLinesFrom(_, _)
DataLinesFrom(raw, i) ==
    IF i > Len(raw) THEN <<>>
    ELSE (IF CompleteAt(raw, i) /\ raw[i].kind \in DataKinds
            THEN <<[id |-> raw[i].id, kind |-> raw[i].kind]>>
            ELSE <<>>) \o DataLinesFrom(raw, i + 1)

parse_sse_observations(raw) == DataLinesFrom(raw, 1)

\* stream.sse exists once join has started the stream
StreamExists == spid # "none"

\* read_stream_observations: what is read from offset to the end of the file
NewData(offset) ==
    IF StreamExists /\ Len(streamFile) > offset
      THEN SubSeq(streamFile, offset + 1, Len(streamFile))
      ELSE <<>>
ReadObservations(offset) == parse_sse_observations(NewData(offset))
\* f.tell() after the read: the end of the file
NewOffset(offset) ==
    IF StreamExists /\ Len(streamFile) > offset THEN Len(streamFile) ELSE offset

(***************************************************************************)
(* kradleverse.py: cmd_observe.                                            *)
(***************************************************************************)
\* lines 616-619: the events of level observation
RECURSIVE ObservationLevel(_)
ObservationLevel(observations) ==
    IF observations = <<>> THEN <<>>
    ELSE (IF Head(observations).kind \in ObservationKinds
            THEN <<Head(observations)>> ELSE <<>>)
         \o ObservationLevel(Tail(observations))

ObservationIds(observations) == Ids(ObservationLevel(observations))

\* a cmd_observe that saves the offset with or without --peek
SavesOffsetAlways(peek, observations) == observations # <<>>

\* cmd_observe, lines 624 and 641: the offset is saved by a non-peeking
\* observe that parsed at least one data line (lines 610-612 return before)
SavesOffset(peek, observations) == ~peek /\ observations # <<>>

\* lines 605-606: load_state (an invocation without a state file exits 1)
ObsLoad(o, peek) ==
    /\ opc[o] = "idle"
    /\ stateJson.exists
    /\ opeek' = [opeek EXCEPT ![o] = peek]
    /\ ostate' = [ostate EXCEPT ![o] = stateJson]
    /\ opc' = [opc EXCEPT ![o] = "loaded"]
    /\ UNCHANGED <<streamFile, stateJson, spid, jpc, jexit, jreason, jrun, joffset,
                   jseen, onew, oout, delivered, delivered2>>
    /\ UNCHANGED <<logVars, daemonVars, restVars>>

\* lines 608-638: the stream file is read from the loaded offset and the
\* output printed
ObsRead(o) ==
    /\ opc[o] = "loaded"
    /\ LET observations == ReadObservations(ostate[o].stream_offset)
           out == ObservationIds(observations)
       IN /\ onew' = [onew EXCEPT ![o] = NewOffset(ostate[o].stream_offset)]
          /\ oout' = [oout EXCEPT ![o] = out]
          /\ opc' = [opc EXCEPT ![o] =
                        IF SavesOffset(opeek[o], observations) THEN "printed" ELSE "returning"]
          /\ delivered' = IF opeek[o] THEN delivered ELSE delivered \cup Range(out)
          /\ delivered2' = IF opeek[o] THEN delivered2
                           ELSE delivered2 \cup (delivered \cap Range(out))
    /\ UNCHANGED <<streamFile, stateJson, spid, jpc, jexit, jreason, jrun, joffset,
                   jseen, opeek, ostate>>
    /\ UNCHANGED <<logVars, daemonVars, restVars>>

\* lines 624-626 and 641-643: state["stream_offset"] = new_offset;
\* save_state writes the loaded document back
ObsSave(o) ==
    /\ opc[o] = "printed"
    /\ stateJson' = [ostate[o] EXCEPT !.stream_offset = onew[o]]
    /\ opc' = [opc EXCEPT ![o] = "returning"]
    /\ UNCHANGED <<streamFile, spid, jpc, jexit, jreason, jrun, joffset, jseen, opeek,
                   ostate, onew, oout, delivered, delivered2>>
    /\ UNCHANGED <<logVars, daemonVars, restVars>>

\* the invocation ends
ObsReturn(o) ==
    /\ opc[o] = "returning"
    /\ opc' = [opc EXCEPT ![o] = "idle"]
    /\ opeek' = [opeek EXCEPT ![o] = FALSE]
    /\ ostate' = [ostate EXCEPT ![o] = NoState]
    /\ onew' = [onew EXCEPT ![o] = 0]
    /\ oout' = [oout EXCEPT ![o] = <<>>]
    /\ UNCHANGED <<streamFile, stateJson, spid, jpc, jexit, jreason, jrun, joffset,
                   jseen, delivered, delivered2>>
    /\ UNCHANGED <<logVars, daemonVars, restVars>>

(***************************************************************************)
(* kradleverse.py: cmd_join.                                               *)
(***************************************************************************)
streamRest == <<opc, opeek, ostate, onew, oout, delivered, delivered2>>

\* sys.exit(code), or the return of cmd_join (code 0)
JoinEnds(code, reason) ==
    /\ jpc' = "done"
    /\ jexit' = code
    /\ jreason' = reason

\* lines 418-424: the credentials are checked
JoinCredentials(ok) ==
    /\ jpc = "start"
    /\ IF ok THEN jpc' = "queue" /\ UNCHANGED <<jexit, jreason>>
             ELSE JoinEnds(1, "credentials")
    /\ UNCHANGED <<streamFile, stateJson, spid, jrun, joffset, jseen, streamRest>>
    /\ UNCHANGED <<logVars, daemonVars, restVars>>

\* join_queue, lines 327-341 (api_call, lines 121-133): the request fails,
\* is refused, or the agent is queued
JoinQueue(ok) ==
    /\ jpc = "queue"
    /\ IF ok THEN jpc' = "assign" /\ UNCHANGED <<jexit, jreason>>
             ELSE JoinEnds(1, "queue_error")
    /\ UNCHANGED <<streamFile, stateJson, spid, jrun, joffset, jseen, streamRest>>
    /\ UNCHANGED <<logVars, daemonVars, restVars>>

\* the answers of a queue-status poll: the request failed (api_call_safe
\* returns None), the agent is no longer queued, waits, or is assigned
PollAnswers == {"failed", "not_in_queue", "waiting", "assigned"}

\* lines 350, 507 and 539: the condition of a wait's while loop
InsideTimeout(elapsed) == elapsed < WaitTimeout

\* a loop that does not sleep (and whose poll takes no time)
SleptNot(elapsed, d) == elapsed

\* lines 353, 372, 518 and 550: time.sleep at the end of an iteration; the
\* iteration has taken d units, one sleep at least (what lies beyond the
\* timeout is not told apart)
Slept(elapsed, d) == IF elapsed + d < WaitTimeout THEN elapsed + d ELSE WaitTimeout

\* a wait that a failed poll ends as well
PollEndsOnFailure(answer) == answer \in {"not_in_queue", "failed"}

\* lines 352-358: a failed poll sleeps and continues; the answer that the
\* agent is no longer queued ends join
PollEnds(answer) == answer = "not_in_queue"

\* wait_for_assignment, lines 350-372: one poll inside the timeout.  An
\* assignment carries the run's ids, each present or not.
JoinPoll(answer, kv, kradle, d) ==
    /\ jpc = "assign"
    /\ InsideTimeout(jrun.elapsed)
    /\ CASE PollEnds(answer) ->
              /\ JoinEnds(1, "not_in_queue")
              /\ jrun' = [jrun EXCEPT !.answer = answer]
         [] answer = "assigned" ->
              /\ jrun' = [jrun EXCEPT !.kv_run_id = kv, !.kradle_run_id = kradle,
                                      !.answer = answer]
              /\ jpc' = IF kv THEN "stream" ELSE "retry"
              /\ UNCHANGED <<jexit, jreason>>
         [] OTHER ->
              /\ jrun' = [jrun EXCEPT !.elapsed = Slept(@, d), !.answer = answer,
                                      !.failed = @ \/ answer = "failed"]
              /\ UNCHANGED <<jpc, jexit, jreason>>
    /\ UNCHANGED <<streamFile, stateJson, spid, joffset, jseen, streamRest>>
    /\ UNCHANGED <<logVars, daemonVars, restVars>>

\* wait_for_assignment, line 375: the exit code at the end of the wait
AssignmentTimeoutCode == 1

\* wait_for_assignment, lines 350 and 374-375: the timeout has passed
JoinAssignTimeout ==
    /\ jpc = "assign"
    /\ ~InsideTimeout(jrun.elapsed)
    /\ JoinEnds(AssignmentTimeoutCode, "assignment_timeout")
    /\ UNCHANGED <<streamFile, stateJson, spid, jrun, joffset, jseen, streamRest>>
    /\ UNCHANGED <<logVars, daemonVars, restVars>>

\* cmd_join, lines 443-457: without a KradleVerse run id the status is
\* polled again, RunIdRetries times at most (the loop counter is dead after
\* the loop and is reset when the loop is left)
JoinRetry(kv, kradle) ==
    /\ jpc = "retry"
    /\ IF jrun.retries < RunIdRetries
         THEN /\ jrun' = [jrun EXCEPT !.retries = IF kv THEN 0 ELSE @ + 1,
                                      !.kv_run_id = kv,
                                      !.kradle_run_id = IF kv THEN (kradle \/ @) ELSE @]
              /\ jpc' = IF kv THEN "stream" ELSE "retry"
              /\ UNCHANGED <<jexit, jreason>>
         ELSE JoinEnds(1, "no_run_id") /\ UNCHANGED jrun
    /\ UNCHANGED <<streamFile, stateJson, spid, joffset, jseen, streamRest>>
    /\ UNCHANGED <<logVars, daemonVars, restVars>>

\* lines 465-482: the connection is confirmed (a failure is only logged),
\* the session directory made and, with a Kradle run id, curl started on a
\* fresh stream.sse
JoinStartStream ==
    /\ jpc = "stream"
    /\ IF jrun.kradle_run_id
         THEN streamFile' = <<>> /\ spid' = "running"
         ELSE UNCHANGED <<streamFile, spid>>
    /\ jpc' = "save"
    /\ UNCHANGED <<stateJson, jexit, jreason, jrun, joffset, jseen, streamRest>>
    /\ UNCHANGED <<logVars, daemonVars, restVars>>

\* lines 485-505: the initial state document
JoinSaveInitial ==
    /\ jpc = "save"
    /\ stateJson' = [exists |-> TRUE,
                     kradle_run_id |-> jrun.kradle_run_id,
                     stream_pid |-> (spid # "none"),
                     stream_offset |-> 0,
                     task |-> FALSE,
                     status |-> "waiting_for_init"]
    /\ joffset' = 0
    /\ jrun' = [jrun EXCEPT !.elapsed = 0]
    /\ jpc' = "init_wait"
    /\ UNCHANGED <<streamFile, spid, jexit, jreason, jseen, streamRest>>
    /\ UNCHANGED <<logVars, daemonVars, restVars>>

HasKind(observations, kind) ==
    \E i \in 1..Len(observations) : observations[i].kind = kind
FirstOfKind(observations, kind) ==
    observations[CHOOSE i \in 1..Len(observations) :
                    /\ observations[i].kind = kind
                    /\ \A j \in 1..(i - 1) : observations[j].kind # kind].id

\* lines 507-518: one read of the stream inside the init-call wait
JoinInitRead(d) ==
    /\ jpc = "init_wait"
    /\ InsideTimeout(jrun.elapsed)
    /\ LET observations == ReadObservations(joffset)
       IN /\ joffset' = NewOffset(joffset)
          /\ jseen' = jseen \cup Range(Ids(observations))
          /\ IF HasKind(observations, "init")
               THEN /\ jpc' = "state_wait"
                    /\ jrun' = [jrun EXCEPT !.elapsed = 0]
               ELSE /\ jpc' = "init_wait"
                    /\ jrun' = [jrun EXCEPT !.elapsed = Slept(@, d)]
    /\ UNCHANGED <<streamFile, stateJson, spid, jexit, jreason, streamRest>>
    /\ UNCHANGED <<logVars, daemonVars, restVars>>

\* a join that leaves the document of line 485 as it is
InitTimeoutStateStale(loaded, offset) == loaded

\* lines 525-529: the loaded document with the offset and the status replaced
InitTimeoutState(loaded, offset) ==
    [loaded EXCEPT !.stream_offset = offset, !.status = "playing"]

\* lines 507 and 520-530: the init-call wait has timed out; the state is
\* saved with the offset reached and status "playing"
JoinInitTimeout ==
    /\ jpc = "init_wait"
    /\ ~InsideTimeout(jrun.elapsed)
    /\ stateJson.exists
    /\ stateJson' = InitTimeoutState(stateJson, joffset)
    /\ JoinEnds(2, "init_timeout")
    /\ UNCHANGED <<streamFile, spid, jrun, joffset, jseen, streamRest>>
    /\ UNCHANGED <<logVars, daemonVars, restVars>>

\* lines 539-550: one read of the stream inside the initial-state wait
JoinStateRead(d) ==
    /\ jpc = "state_wait"
    /\ InsideTimeout(jrun.elapsed)
    /\ LET observations == ReadObservations(joffset)
       IN /\ joffset' = NewOffset(joffset)
          /\ jseen' = jseen \cup Range(Ids(observations))
          /\ IF HasKind(observations, "istate")
               THEN /\ jrun' = [jrun EXCEPT
                                  !.initial_state = FirstOfKind(observations, "istate")]
                    /\ jpc' = "final"
               ELSE /\ jrun' = [jrun EXCEPT !.elapsed = Slept(@, d)]
                    /\ UNCHANGED jpc
    /\ UNCHANGED <<streamFile, stateJson, spid, jexit, jreason, streamRest>>
    /\ UNCHANGED <<logVars, daemonVars, restVars>>

\* line 539: the 30 seconds of the initial-state wait have passed
JoinStateTimeout ==
    /\ jpc = "state_wait"
    /\ ~InsideTimeout(jrun.elapsed)
    /\ jpc' = "final"
    /\ UNCHANGED <<streamFile, stateJson, spid, jexit, jreason, jrun, joffset, jseen,
                   streamRest>>
    /\ UNCHANGED <<logVars, daemonVars, restVars>>

\* lines 552-600: the state document with the game info is written and the
\* game info printed
JoinSaveFinal ==
    /\ jpc = "final"
    /\ stateJson' = [exists |-> TRUE,
                     kradle_run_id |-> jrun.kradle_run_id,
                     stream_pid |-> (spid # "none"),
                     stream_offset |-> joffset,
                     task |-> TRUE,
                     status |-> "playing"]
    /\ JoinEnds(0, "ok")
    /\ UNCHANGED <<streamFile, spid, jrun, joffset, jseen, streamRest>>
    /\ UNCHANGED <<logVars, daemonVars, restVars>>

\* the producer and one observe invocation
StreamStep(kinds, observers) ==
    \/ \E kind \in kinds : StreamWriteLine(kind)
    \/ \E kind \in kinds : StreamWriteHead(kind)
    \/ StreamWriteTail
    \/ StreamEnds
    \/ \E o \in observers, peek \in BOOLEAN : ObsLoad(o, peek)
    \/ \E o \in observers : ObsRead(o)
    \/ \E o \in observers : ObsSave(o)
    \/ \E o \in observers : ObsReturn(o)

(***************************************************************************)
(* join, the stream it starts and an observe invocation on its session.    *)
(***************************************************************************)
InitJoin == LogInit /\ DaemonInit(FALSE) /\ StreamInit /\ RestInit

\* what an iteration of a wait can take
Sleeps == 1..WaitTimeout

\* a step of cmd_join
JoinStep ==
    \/ \E ok \in BOOLEAN : JoinCredentials(ok)
    \/ \E ok \in BOOLEAN : JoinQueue(ok)
    \/ \E answer \in PollAnswers, kv, kradle \in BOOLEAN, d \in Sleeps :
          JoinPoll(answer, kv, kradle, d)
    \/ JoinAssignTimeout
    \/ \E kv, kradle \in BOOLEAN : JoinRetry(kv, kradle)
    \/ JoinStartStream
    \/ JoinSaveInitial
    \/ \E d \in Sleeps : JoinInitRead(d)
    \/ JoinInitTimeout
    \/ \E d \in Sleeps : JoinStateRead(d)
    \/ JoinStateTimeout
    \/ JoinSaveFinal

NextJoin ==
    \/ JoinStep
    \/ StreamStep(LineKinds, {"o1"})

SpecJoin == InitJoin /\ [][NextJoin]_vars

\* the process that runs cmd_join is scheduled: its clock advances and its
\* requests and reads return.  Nothing is assumed of the remote service, of
\* curl or of the observe invocations.
SpecJoinFair == SpecJoin /\ WF_vars(JoinStep)

(***************************************************************************)
(* The session after join: the stream and overlapping observe invocations. *)
(* The initial state is the one a join leaves that gave up waiting for the *)
(* init-call before curl had written anything.                             *)
(***************************************************************************)
InitStream ==
    /\ LogInit /\ DaemonInit(FALSE) /\ RestInit
    /\ streamFile = <<>>
    /\ spid = "running"
    /\ stateJson = [exists |-> TRUE, kradle_run_id |-> TRUE, stream_pid |-> TRUE,
                    stream_offset |-> 0, task |-> FALSE, status |-> "playing"]
    /\ jpc = "done"
    /\ jexit = 2
    /\ jreason = "init_timeout"
    /\ jrun = [kv_run_id |-> TRUE, kradle_run_id |-> TRUE, retries |-> 0,
               initial_state |-> 0, elapsed |-> WaitTimeout, answer |-> "assigned",
               failed |-> FALSE]
    /\ joffset = 0
    /\ jseen = {}
    /\ opc = [o \in Observers |-> "idle"]
    /\ opeek = [o \in Observers |-> FALSE]
    /\ ostate = [o \in Observers |-> NoState]
    /\ onew = [o \in Observers |-> 0]
    /\ oout = [o \in Observers |-> <<>>]
    /\ delivered = {}
    /\ delivered2 = {}

NextStream == StreamStep(LineKinds, Observers)

SpecStream == InitStream /\ [][NextStream]_vars

(***************************************************************************)
(* Claims on the observation log.                                          *)
(***************************************************************************)
NoDuplicates(s) == \A i, j \in 1..Len(s) : i # j => s[i] # s[j]
InAppendOrder(s) == \A i, j \in 1..Len(s) : i < j => s[i] < s[j]
\* a record that reached the file is in the file, was returned by a clearing
\* drain, or has been read by a clearing drain that still holds the lock
Accounted(id) ==
    \/ \E i \in 1..Len(obsFile) : obsFile[i].id = id
    \/ \E i \in 1..Len(drained) : drained[i] = id
    \/ \E r \in Readers : /\ rclear[r] /\ rpc[r] = "read"
                          /\ \E i \in 1..Len(robs[r]) : robs[r][i].id = id

\* C1: for every interleaving of appends with clearing drains, each appended
\* record is returned by exactly one clearing drain, in append order, none
\* duplicated and none lost.
C1_LogLinearizable ==
    /\ NoDuplicates(drained)
    /\ InAppendOrder(drained)
    /\ \A id \in written : Accounted(id)

\* a clearing drain between its read and its truncate
Draining(r) == rclear[r] /\ rpc[r] = "read"
\* a peek that holds the shared lock
Peeking(r) == ~rclear[r] /\ rpc[r] \in {"locked", "read"}

\* C28: every modification of the observation log (the bytes of an append
\* reaching the file, the truncation of a clearing drain) takes place while
\* the modifying process holds the exclusive lock; peeks may share the
\* lock, but no append and no peek is in progress on the file while a
\* clearing drain is between its read and its truncate.
C28_ModifyUnderLock ==
    /\ [][obsFile' # obsFile =>
            IF Len(obsFile') > Len(obsFile)
              THEN lockEx = "w"
              ELSE lockEx \in Readers /\ Draining(lockEx)]_vars
    /\ [](\A r \in Readers :
            Draining(r) =>
                /\ lockEx = r
                /\ \A p \in Readers : ~Peeking(p)
                /\ wbuf = <<>>)

\* a step of a peeking invocation
PeekStep(r) ==
    /\ ~rclear[r]
    /\ ReadLock(r) \/ ReadLines(r) \/ ReadClearUnlock(r) \/ ReadReturn(r)

HasRead(r) == rpc[r] \in {"read", "returned"}

\* peeks that read with no append and no clearing drain between them
\* returned the same observations
PeeksAgree ==
    \A r1, r2 \in Readers :
        (/\ HasRead(r1) /\ ~rclear[r1]
         /\ HasRead(r2) /\ ~rclear[r2]
         /\ repoch[r1] = repoch[r2]) => robs[r1] = robs[r2]

\* C5: a non-clearing drain never changes the observation log, and repeated
\* peeks with no intervening append return identical results.
C5_PeekIdempotent ==
    /\ [][(\E r \in Readers : PeekStep(r)) => obsFile' = obsFile]_vars
    /\ []PeeksAgree

\* two peeks have read the same non-empty log
C5_Witness ==
    \E r1, r2 \in Readers :
        /\ r1 # r2
        /\ rpc[r1] = "returned" /\ ~rclear[r1]
        /\ rpc[r2] = "returned" /\ ~rclear[r2]
        /\ repoch[r1] = repoch[r2]
        /\ robs[r1] # <<>>
        /\ obsFile = robs[r1]

(***************************************************************************)
(* Claims on the daemon.                                                   *)
(***************************************************************************)
\* C7: on every terminal transition of the daemon (stop signal, inactivity
\* timeout, game over, internal error) observer.pid is deleted before the
\* process exits: in no reachable state is the process gone while its
\* liveness file exists.
C7_NoStalePidFile == Gone => ~pidFile

\* a wake-up of the watchdog in a serving daemon ends the daemon exactly
\* when more than INACTIVITY_TIMEOUT seconds passed since the last activity
WakeEndsExactlyWhenInactive ==
    (WatchdogWake /\ dpc = "serving") =>
        ((now - last_observation_time > INACTIVITY_TIMEOUT)
            <=> (dpc' = "cleanup" /\ exitCause' = "inactivity" /\ ~pidFile'))

\* C8: the watchdog, waking every 30 seconds, terminates the daemon at a
\* wake-up exactly when more than 300 seconds have passed since the last
\* relayed event or init; a daemon that receives no further event
\* eventually terminates, and one that relays an event at least every 300
\* seconds is never terminated by the watchdog.
C8_Watchdog ==
    /\ [][WakeEndsExactlyWhenInactive]_vars
    /\ [](exitCause = "inactivity" => now - last_observation_time > INACTIVITY_TIMEOUT)
    /\ [](dpc = "serving" => <>Gone)

\* the watchdog ended a daemon that had relayed events, the last of them
\* after its start
C8_Witness ==
    /\ dpc = "exited"
    /\ exitCause = "inactivity"
    /\ nextId > 1
    /\ last_observation_time > 0
    /\ ~pidFile

GameOverLogged == \E i \in 1..Len(obsFile) : obsFile[i].event \in GameOverKinds

C2_CursorMonotone ==
    [][(stateJson.exists /\ stateJson'.exists)
          => stateJson'.stream_offset >= stateJson.stream_offset]_vars

\* C3: no observation record is delivered twice to non-peeking readers:
\* each observation-level record is in the output of at most one
\* non-peeking observe, sequential or overlapping.
C3_NoRedelivery == delivered2 = {}

\* the whole line of an observation-level record starts before the
\* persisted cursor, so no later read from the cursor parses it
BehindCursor(i) ==
    /\ CompleteAt(streamFile, i)
    /\ streamFile[i].kind \in ObservationKinds
    /\ stateJson.exists
    /\ i - 1 < stateJson.stream_offset

\* C4: no record is silently skipped by the streaming reader: every
\* observation-level record written to the stream file is delivered by a
\* non-peeking observe, also when an earlier read saw only part of its
\* line (a record that join itself parsed is left to join).
C4_NoSkippedRecord ==
    \A i \in 1..Len(streamFile) :
        BehindCursor(i) => streamFile[i].id \in (delivered \cup jseen)

\* a step of an observe invocation run with --peek
ObsPeekStep(o) == opeek[o] /\ (ObsRead(o) \/ ObsSave(o) \/ ObsReturn(o))

\* what a peek printed is printed again, first, by an observe that starts
\* from the same cursor and reads no less of the file
SeenAgain ==
    \A p, o \in Observers :
        (/\ opc[p] = "returning" /\ opeek[p]
         /\ opc[o] \in {"printed", "returning"}
         /\ ostate[o].stream_offset = ostate[p].stream_offset
         /\ onew[o] >= onew[p]) => IsPrefix(oout[p], oout[o])

\* C6: observe with --peek leaves state.json (stream_offset included)
\* unchanged, so the records one peek returned are returned again by the
\* next observe on the session.
C6_PeekKeepsCursor ==
    /\ [][(\E o \in Observers : ObsPeekStep(o)) => stateJson' = stateJson]_vars
    /\ []SeenAgain

\* a peek printed records, and a non-peeking observe that started from
\* the same cursor printed them again
C6_Witness ==
    \E p, o \in Observers :
        /\ opc[p] = "returning" /\ opeek[p]
        /\ opc[o] = "printed" /\ ~opeek[o]
        /\ ostate[o].stream_offset = ostate[p].stream_offset
        /\ stateJson.stream_offset = ostate[p].stream_offset
        /\ oout[p] # <<>>
        /\ IsPrefix(oout[p], oout[o])

(***************************************************************************)
(* Claims on join.                                                         *)
(***************************************************************************)
TimeoutReasons == {"assignment_timeout", "init_timeout"}
ErrorReasons == {"credentials", "queue_error", "not_in_queue", "no_run_id"}

\* C10: join ends with exit code 2 whenever it gives up because a wait for
\* the game timed out (the assignment or the init-call never arrives), with
\* 1 on generic, credential or parse errors and with 0 on success.
C10_ExitCodes ==
    jpc = "done" =>
        /\ jreason \in TimeoutReasons => jexit = 2
        /\ jreason \in ErrorReasons => jexit = 1
        /\ jreason = "ok" => jexit = 0

\* join gives up the wait for the init-call
GivesUpInit == jpc = "init_wait" /\ jpc' = "done"

\* an observe loads the document while it is as that join left it
LoadsAfterInitTimeout(o) ==
    /\ jreason = "init_timeout"
    /\ stateJson.stream_offset = joffset
    /\ opc[o] = "idle" /\ opc'[o] = "loaded"

\* C11: when the init-call does not arrive in time after an assignment,
\* join leaves a state document with status "playing", the run identifiers
\* of the assignment and the offset its last read reached, and a later
\* observe on the session resumes from that offset.
C11_InitTimeoutState ==
    /\ [][GivesUpInit =>
            /\ stateJson'.exists
            /\ stateJson'.status = "playing"
            /\ stateJson'.kradle_run_id = jrun.kradle_run_id
            /\ stateJson'.stream_pid = (spid # "none")
            /\ stateJson'.stream_offset = joffset]_vars
    /\ [][\A o \in Observers :
            LoadsAfterInitTimeout(o) => ostate'[o].stream_offset = joffset]_vars

\* join gave up after it had read part of the stream, and an observe has
\* loaded the document it left
C11_Witness ==
    /\ jreason = "init_timeout"
    /\ jexit = 2
    /\ joffset > 0
    /\ stateJson.status = "playing"
    /\ \E o \in Observers :
          /\ opc[o] = "loaded"
          /\ ostate[o].status = "playing"
          /\ ostate[o].stream_offset = joffset

\* the waits of cmd_join
Waits == {"assign", "init_wait", "state_wait"}

PollStep(answer) == jpc = "assign" /\ jrun' # jrun /\ jrun'.answer = answer

\* C22: a failed queue-status poll never ends the assignment wait: after any
\* number of failed polls join is still in the wait, and an assignment that
\* a later poll inside the timeout reports is accepted.
C22_FailedPollAbsorbed ==
    /\ [][PollStep("failed") => jpc' = "assign" /\ jexit' = -1]_vars
    /\ [][(jrun.failed /\ PollStep("assigned")) =>
            /\ jpc' \in {"stream", "retry"}
            /\ jexit' = -1
            /\ jrun'.kv_run_id = (jpc' = "stream")]_vars

\* polls failed, the wait went on and a later poll brought the assignment
C22_Witness ==
    /\ jrun.failed
    /\ jrun.answer = "assigned"
    /\ jrun.elapsed > 0
    /\ jpc = "stream"

\* the arena has started: join has persisted the task and the skill names
\* with the run identifiers and status "playing" (lines 553-565)
ArenaStarted == stateJson.exists /\ stateJson.task /\ stateJson.status = "playing"

\* C23: the Run Handle of a session is immutable once the arena starts:
\* after join has persisted the task, the skill names and the run
\* identifiers with status "playing", no later operation on the session
\* changes any of these fields of state.json.
C23_RunHandleImmutable ==
    [][ArenaStarted =>
          /\ stateJson'.exists
          /\ stateJson'.task = stateJson.task
          /\ stateJson'.kradle_run_id = stateJson.kradle_run_id
          /\ stateJson'.stream_pid = stateJson.stream_pid]_vars

\* C24: the persisted status only moves forward along waiting_for_init ->
\* playing: once state.json holds status "playing", no later write to it
\* holds "waiting_for_init".
C24_StatusForward ==
    [][stateJson.status = "playing" => stateJson'.status # "waiting_for_init"]_vars

\* the part of stream.sse at which the line of this id starts
LineStart(id) == CHOOSE i \in 1..Len(streamFile) :
                    streamFile[i].id = id /\ streamFile[i].half = "H"
\* the observation-level records join has parsed
SeenObservations ==
    {id \in jseen : streamFile[LineStart(id)].kind \in ObservationKinds}

\* C29: join hands the stream over to observe without skipping records:
\* every observation-level record that join read from the stream while it
\* waited for the init-call and the initial state is either the initial
\* state that join reports or lies at or after the stream_offset that join
\* persists, so that the first non-peeking observe delivers it.
C29_JoinSkipsNothing ==
    (jpc = "done" /\ jreason \in {"ok", "init_timeout"}) =>
        \A id \in SeenObservations :
            \/ id = jrun.initial_state
            \/ LineStart(id) > joffset

(***************************************************************************)
(* kradleverse.py: the sessions directory.  The joins of the sessions, as  *)
(* far as they create storage and processes, and cleanup.                  *)
(***************************************************************************)
actVars == <<apc, aarg, aloaded, aexit, forwarded>>
statusVars == <<tpc, tsess, ttodo, listed, texit, tloaded>>
cleanupVars == <<cpc, ctodo, stopResult>>

\* joins are started while no cleanup runs
Joining(s, at) == jp[s] = at /\ cpc = "idle"

\* cmd_join, lines 474-475: the session directory is made
SJoinMkdir(s) ==
    /\ Joining(s, "idle")
    /\ rootDir' = TRUE
    /\ sessDir' = [sessDir EXCEPT ![s] = TRUE]
    /\ jp' = [jp EXCEPT ![s] = "dir"]
    /\ UNCHANGED <<doc, docPid, proc, cleanupVars, actVars, statusVars>>
    /\ UNCHANGED <<logVars, daemonVars, streamVars, formatVars>>

\* lines 478-482: with a Kradle run id, curl is started in the background
SJoinStart(s, kradle) ==
    /\ Joining(s, "dir")
    /\ proc' = [proc EXCEPT ![s] = IF kradle THEN "running" ELSE @]
    /\ jp' = [jp EXCEPT ![s] = "curl"]
    /\ UNCHANGED <<rootDir, sessDir, doc, docPid, cleanupVars, actVars, statusVars>>
    /\ UNCHANGED <<logVars, daemonVars, streamVars, formatVars>>

\* save_state, line 90: write_text opens state.json for writing, which
\* creates it empty
SJoinOpen(s) ==
    /\ Joining(s, "curl")
    /\ doc' = [doc EXCEPT ![s] = "partial"]
    /\ jp' = [jp EXCEPT ![s] = "open"]
    /\ UNCHANGED <<rootDir, sessDir, docPid, proc, cleanupVars, actVars, statusVars>>
    /\ UNCHANGED <<logVars, daemonVars, streamVars, formatVars>>

\* save_state, line 90, with the document of lines 485-497: the text is
\* written and the file closed
SJoinWrite(s) ==
    /\ Joining(s, "open")
    /\ doc' = [doc EXCEPT ![s] = "valid"]
    /\ docPid' = [docPid EXCEPT ![s] = proc[s] # "none"]
    /\ jp' = [jp EXCEPT ![s] = "saved"]
    /\ UNCHANGED <<rootDir, sessDir, proc, cleanupVars, actVars, statusVars>>
    /\ UNCHANGED <<logVars, daemonVars, streamVars, formatVars>>

\* save_state, line 90, of a later save of the session (join, lines 525-529
\* and 553-565, observe, lines 626 and 643): write_text opens the state.json
\* that is there for writing, which empties it
SaveStateOpen(s) ==
    /\ Joining(s, "saved")
    /\ doc[s] = "valid"
    /\ doc' = [doc EXCEPT ![s] = "partial"]
    /\ jp' = [jp EXCEPT ![s] = "rewrite"]
    /\ UNCHANGED <<rootDir, sessDir, docPid, proc, cleanupVars, actVars, statusVars>>
    /\ UNCHANGED <<logVars, daemonVars, streamVars, formatVars>>

\* save_state, line 90: the new text is written and the file closed
SaveStateWrite(s) ==
    /\ Joining(s, "rewrite")
    /\ doc' = [doc EXCEPT ![s] = "valid"]
    /\ jp' = [jp EXCEPT ![s] = "saved"]
    /\ UNCHANGED <<rootDir, sessDir, docPid, proc, cleanupVars, actVars, statusVars>>
    /\ UNCHANGED <<logVars, daemonVars, streamVars, formatVars>>

\* the join process is killed or crashes part-way and leaves behind what
\* it has made so far
SJoinKilled(s) ==
    /\ jp[s] \in {"dir", "curl", "open"}
    /\ cpc = "idle"
    /\ jp' = [jp EXCEPT ![s] = "ended"]
    /\ UNCHANGED <<rootDir, sessDir, doc, docPid, proc, cleanupVars, actVars,
                   statusVars>>
    /\ UNCHANGED <<logVars, daemonVars, streamVars, formatVars>>

\* the stream ends and curl exits by itself
CurlExits(s) ==
    /\ proc[s] = "running"
    /\ proc' = [proc EXCEPT ![s] = "dead"]
    /\ UNCHANGED <<rootDir, sessDir, doc, docPid, jp, cleanupVars, actVars,
                   statusVars>>
    /\ UNCHANGED <<logVars, daemonVars, streamVars, formatVars>>

\* os.kill(pid, SIGTERM), line 218: what it raises
os_kill(procs, s) ==
    IF procs[s] \in {"running", "reused"} THEN "nothing"
                                           ELSE "ProcessLookupError"

\* stop_observation_stream, line 219: the exceptions it swallows
StopCaught == {"ProcessLookupError", "PermissionError"}

\* stop_observation_stream, lines 215-220: the process table afterwards
StopProcs(procs, s) ==
    IF os_kill(procs, s) = "nothing" THEN [procs EXCEPT ![s] = "dead"] ELSE procs

\* stop_observation_stream, lines 215-220: how the call ends
StopResult(procs, s) ==
    LET raised == os_kill(procs, s)
    IN IF raised = "nothing"
         THEN (IF procs[s] = "running" THEN "signalled" ELSE "signalled_other")
       ELSE IF raised \in StopCaught THEN "noop"
       ELSE "raised"

\* a load that takes whatever text the file holds for a document
ReadableAny(kind) == TRUE

\* load of a state document, lines 78-82 and 707: only a document written
\* whole parses
Readable(kind) == kind = "valid"

\* cmd_cleanup, lines 702-704: the directories of SESSIONS_DIR are listed
CleanupBegin ==
    /\ cpc = "idle"
    /\ IF rootDir
         THEN cpc' = "scan" /\ ctodo' = {s \in Sessions : sessDir[s]}
         ELSE cpc' = "done" /\ ctodo' = {}
    /\ UNCHANGED <<rootDir, sessDir, doc, docPid, proc, jp, stopResult, actVars,
                   statusVars>>
    /\ UNCHANGED <<logVars, daemonVars, streamVars, formatVars>>

\* lines 705-712: one directory of the loop.  Without state.json it is
\* passed over; a state.json that does not parse raises JSONDecodeError,
\* which is swallowed; a stream_pid found is stopped
CleanupVisit(s) ==
    /\ cpc = "scan"
    /\ s \in ctodo
    /\ ctodo' = ctodo \ {s}
    /\ IF sessDir[s] /\ doc[s] # "absent" /\ Readable(doc[s]) /\ docPid[s]
         THEN /\ proc' = StopProcs(proc, s)
              /\ stopResult' = StopResult(proc, s)
         ELSE UNCHANGED <<proc, stopResult>>
    /\ UNCHANGED <<rootDir, sessDir, doc, docPid, jp, cpc, actVars, statusVars>>
    /\ UNCHANGED <<logVars, daemonVars, streamVars, formatVars>>

\* lines 713-715: shutil.rmtree(SESSIONS_DIR)
CleanupRmtree ==
    /\ cpc = "scan"
    /\ ctodo = {}
    /\ rootDir' = FALSE
    /\ sessDir' = [s \in Sessions |-> FALSE]
    /\ doc' = [s \in Sessions |-> "absent"]
    /\ docPid' = [s \in Sessions |-> FALSE]
    /\ cpc' = "done"
    /\ UNCHANGED <<proc, jp, ctodo, stopResult, actVars, statusVars>>
    /\ UNCHANGED <<logVars, daemonVars, streamVars, formatVars>>

\* the system gives the pid that state.json records, of a curl that has
\* exited, to a new process of the user (with a process of another user
\* os.kill raises PermissionError, which stop catches as it does
\* ProcessLookupError)
PidReused(s) ==
    /\ proc[s] = "dead"
    /\ docPid[s]
    /\ proc' = [proc EXCEPT ![s] = "reused"]
    /\ UNCHANGED <<rootDir, sessDir, doc, docPid, jp, cleanupVars, actVars,
                   statusVars>>
    /\ UNCHANGED <<logVars, daemonVars, streamVars, formatVars>>

(***************************************************************************)
(* kradleverse.py act and act.py.                                          *)
(***************************************************************************)
Scripts == {"kradleverse.py", "act.py"}

\* cmd_act, lines 648-650, and act.py, lines 67-71 and 120-123: without
\* --code and --message, or (act.py) without the SDK, the script exits 1
ActStart(script, s, ok) ==
    /\ apc = "idle"
    /\ aarg' = [script |-> script, session |-> s]
    /\ IF ok THEN apc' = "load" /\ aexit' = -1
             ELSE apc' = "done" /\ aexit' = 1
    /\ UNCHANGED <<aloaded, forwarded>>
    /\ UNCHANGED <<rootDir, sessDir, doc, docPid, proc, jp, cleanupVars, statusVars>>
    /\ UNCHANGED <<logVars, daemonVars, streamVars, formatVars>>

\* load_state, lines 71-82, and get_state, act.py lines 44-56: without a
\* state file, or with one that does not parse, the script exits 1
ActLoad ==
    /\ apc = "load"
    /\ aloaded' = doc[aarg.session]
    /\ IF doc[aarg.session] # "absent" /\ Readable(doc[aarg.session])
         THEN apc' = "send" /\ aexit' = -1
         ELSE apc' = "done" /\ aexit' = 1
    /\ UNCHANGED <<aarg, forwarded>>
    /\ UNCHANGED <<rootDir, sessDir, doc, docPid, proc, jp, cleanupVars, statusVars>>
    /\ UNCHANGED <<logVars, daemonVars, streamVars, formatVars>>

\* an act that leaves the state file opened for writing
ActDocRewritten(kind) == "partial"

\* send_action, lines 386-408, and act.py, lines 59-101: neither writes
\* the state document
ActDoc(kind) == kind

\* lines 389-408 and act.py lines 82-101: the request is made (sent) and
\* answered (ok); a key missing in the document, a failed request or an
\* HTTP error ends the script with exit code 1
ActForward(sent, ok) ==
    /\ apc = "send"
    /\ forwarded' = sent
    /\ aexit' = IF sent /\ ok THEN 0 ELSE 1
    /\ apc' = "done"
    /\ doc' = [doc EXCEPT ![aarg.session] = ActDoc(@)]
    /\ UNCHANGED <<aarg, aloaded>>
    /\ UNCHANGED <<rootDir, sessDir, docPid, proc, jp, cleanupVars, statusVars>>
    /\ UNCHANGED <<logVars, daemonVars, streamVars, formatVars>>

\* the invocation has ended
ActReturn ==
    /\ apc = "done"
    /\ apc' = "idle"
    /\ aarg' = None
    /\ aloaded' = None
    /\ aexit' = -1
    /\ forwarded' = FALSE
    /\ UNCHANGED <<rootDir, sessDir, doc, docPid, proc, jp, cleanupVars, statusVars>>
    /\ UNCHANGED <<logVars, daemonVars, streamVars, formatVars>>

(***************************************************************************)
(* kradleverse.py status.                                                  *)
(***************************************************************************)
\* cmd_status, lines 657-658: with or without a session id
StatusStart(arg) ==
    /\ tpc = "idle"
    /\ tsess' = arg
    /\ tpc' = IF arg = None THEN "check" ELSE "load"
    /\ UNCHANGED <<ttodo, listed, texit, tloaded>>
    /\ UNCHANGED <<rootDir, sessDir, doc, docPid, proc, jp, cleanupVars, actVars>>
    /\ UNCHANGED <<logVars, daemonVars, streamVars, formatVars>>

\* line 685 with load_state, lines 71-82, and lines 686-697
StatusLoad ==
    /\ tpc = "load"
    /\ tloaded' = doc[tsess]
    /\ texit' = IF doc[tsess] # "absent" /\ Readable(doc[tsess]) THEN 0 ELSE 1
    /\ tpc' = "done"
    /\ UNCHANGED <<tsess, ttodo, listed>>
    /\ UNCHANGED <<rootDir, sessDir, doc, docPid, proc, jp, cleanupVars, actVars>>
    /\ UNCHANGED <<logVars, daemonVars, streamVars, formatVars>>

\* lines 660-662: without SESSIONS_DIR there is nothing to list
StatusCheck ==
    /\ tpc = "check"
    /\ IF rootDir THEN tpc' = "iter" /\ texit' = -1
                  ELSE tpc' = "done" /\ texit' = 0
    /\ UNCHANGED <<tsess, ttodo, listed, tloaded>>
    /\ UNCHANGED <<rootDir, sessDir, doc, docPid, proc, jp, cleanupVars, actVars>>
    /\ UNCHANGED <<logVars, daemonVars, streamVars, formatVars>>

\* line 664: SESSIONS_DIR.iterdir(); a directory removed since line 660
\* raises FileNotFoundError, which nothing catches
StatusIter ==
    /\ tpc = "iter"
    /\ IF rootDir
         THEN tpc' = "scan" /\ ttodo' = {s \in Sessions : sessDir[s]} /\ texit' = -1
         ELSE tpc' = "done" /\ ttodo' = {} /\ texit' = 1
    /\ UNCHANGED <<tsess, listed, tloaded>>
    /\ UNCHANGED <<rootDir, sessDir, doc, docPid, proc, jp, cleanupVars, actVars>>
    /\ UNCHANGED <<logVars, daemonVars, streamVars, formatVars>>

\* what reading state.json inside the listing raises
ListRaises(kind) == IF Readable(kind) THEN "nothing" ELSE "JSONDecodeError"

\* a listing that catches nothing
ListCaughtNothing == {}

\* line 669: the exceptions the listing swallows
ListCaught == {"JSONDecodeError", "OSError"}

\* lines 665-670: one directory of the loop
StatusVisit(s) ==
    /\ tpc = "scan"
    /\ s \in ttodo
    /\ ttodo' = ttodo \ {s}
    /\ IF sessDir[s] /\ doc[s] # "absent"
         THEN LET raised == ListRaises(doc[s])
              IN IF raised = "nothing"
                   THEN listed' = listed \cup {s} /\ UNCHANGED <<tpc, texit>>
                   ELSE IF raised \in ListCaught
                          THEN UNCHANGED <<listed, tpc, texit>>
                          ELSE tpc' = "done" /\ texit' = 1 /\ UNCHANGED listed
         ELSE UNCHANGED <<listed, tpc, texit>>
    /\ UNCHANGED <<tsess, tloaded>>
    /\ UNCHANGED <<rootDir, sessDir, doc, docPid, proc, jp, cleanupVars, actVars>>
    /\ UNCHANGED <<logVars, daemonVars, streamVars, formatVars>>

\* lines 671-683: the sessions collected are printed
StatusPrint ==
    /\ tpc = "scan"
    /\ ttodo = {}
    /\ tpc' = "done"
    /\ texit' = 0
    /\ UNCHANGED <<tsess, ttodo, listed, tloaded>>
    /\ UNCHANGED <<rootDir, sessDir, doc, docPid, proc, jp, cleanupVars, actVars>>
    /\ UNCHANGED <<logVars, daemonVars, streamVars, formatVars>>

\* the invocation has ended
StatusReturn ==
    /\ tpc = "done"
    /\ tpc' = "idle"
    /\ tsess' = None
    /\ ttodo' = {}
    /\ listed' = {}
    /\ texit' = -1
    /\ tloaded' = None
    /\ UNCHANGED <<rootDir, sessDir, doc, docPid, proc, jp, cleanupVars, actVars>>
    /\ UNCHANGED <<logVars, daemonVars, streamVars, formatVars>>

(***************************************************************************)
(* The sessions, their joins and producers, and the commands on them.      *)
(***************************************************************************)
InitSessions == LogInit /\ DaemonInit(FALSE) /\ StreamInit /\ RestInit

NextSessions ==
    \/ \E s \in Sessions : SJoinMkdir(s)
    \/ \E s \in Sessions, kradle \in BOOLEAN : SJoinStart(s, kradle)
    \/ \E s \in Sessions : SJoinOpen(s)
    \/ \E s \in Sessions : SJoinWrite(s)
    \/ \E s \in Sessions : SJoinKilled(s)
    \/ \E s \in Sessions : SaveStateOpen(s)
    \/ \E s \in Sessions : SaveStateWrite(s)
    \/ \E s \in Sessions : CurlExits(s)
    \/ \E s \in Sessions : PidReused(s)
    \/ CleanupBegin
    \/ \E s \in Sessions : CleanupVisit(s)
    \/ CleanupRmtree
    \/ \E script \in Scripts, s \in Sessions, ok \in BOOLEAN : ActStart(script, s, ok)
    \/ ActLoad
    \/ \E sent, ok \in BOOLEAN : ActForward(sent, ok)
    \/ ActReturn
    \/ \E arg \in Sessions \cup {None} : StatusStart(arg)
    \/ StatusLoad
    \/ StatusCheck
    \/ StatusIter
    \/ \E s \in Sessions : StatusVisit(s)
    \/ StatusPrint
    \/ StatusReturn

SpecSessions == InitSessions /\ [][NextSessions]_vars

(***************************************************************************)
(* Claims on the sessions directory.                                       *)
(***************************************************************************)
\* C12: after cleanup completes, no producer process started by a join is
\* still running and no session storage remains, for every reachable set
\* of sessions: sessions whose join crashed or was interrupted part-way and
\* sessions whose state document is unreadable included.
C12_CleanupLeavesNothing ==
    cpc = "done" =>
        /\ \A s \in Sessions : proc[s] # "running"
        /\ ~rootDir
        /\ \A s \in Sessions : ~sessDir[s] /\ doc[s] = "absent"

\* C30: a crash of join at any point after the producer was started leaves
\* a resumable, inspectable state: in every reachable state in which a
\* stream subprocess started by join is running, the session's state.json
\* exists and records that subprocess id, the run identifiers and a cursor.
C30_RunningStreamRecorded ==
    \A s \in Sessions : proc[s] = "running" => (doc[s] = "valid" /\ docPid[s])

\* C31: cleanup and stop send a termination signal only to processes that
\* are stream producers started by join for a known session: in no
\* reachable state, one where a recorded stream subprocess has exited and
\* its process id has been reused by another process included, is a process
\* that is not such a producer signalled.
C31_OnlyProducersSignalled == stopResult # "signalled_other"

\* a later save of session s is between its open and its write
Rewriting(s) == jp[s] = "rewrite" /\ cpc = "idle"

\* C32: an invocation that reads a session's state document while another
\* invocation rewrites it never observes a partially written document: act
\* and status load the complete document and do not fail with an
\* invalid-state error for a session whose state was valid before the write
\* and is valid after it.
C32_ReadersSeeWholeDocument ==
    /\ [][(apc = "load" /\ apc' # "load" /\ Rewriting(aarg.session))
            => (aloaded' = "valid" /\ aexit' # 1)]_vars
    /\ [][(tpc = "load" /\ tpc' # "load" /\ Rewriting(tsess))
            => (tloaded' = "valid" /\ texit' # 1)]_vars

\* cleanup visits a session whose document names a producer that is dead,
\* its pid free or taken by another process since
StopsDead(s) ==
    /\ cpc = "scan" /\ s \in ctodo /\ s \notin ctodo'
    /\ sessDir[s] /\ doc[s] = "valid" /\ docPid[s]
    /\ proc[s] \in {"dead", "reused"}

\* stopping twice leaves what stopping once leaves
StopIdempotent ==
    \A s \in Sessions :
        /\ StopProcs(StopProcs(proc, s), s) = StopProcs(proc, s)
        /\ StopResult(StopProcs(proc, s), s) # "raised"

\* C13: stopping a producer that is no longer alive is a no-op that raises
\* no error: stop_observation_stream on the pid of a process that has died
\* returns normally, and applying it twice has the effect of applying it
\* once.
C13_StopDeadIsNoop ==
    /\ [][\A s \in Sessions :
            StopsDead(s) => (proc' = proc /\ stopResult' = "noop")]_vars
    /\ [](stopResult # "raised")
    /\ []StopIdempotent

\* C14: sending an action never changes local session state: after any act
\* invocation, successful or failed, the session's state.json, the stream
\* file and the observation log are as they were before.
C14_ActChangesNothing ==
    [][apc' # apc =>
          UNCHANGED <<rootDir, sessDir, doc, docPid, stateJson, streamFile,
                      obsFile, obsExists>>]_vars

\* an act has sent its action and been answered, on a session with a state
\* document
C14_Witness ==
    /\ apc = "done" /\ forwarded /\ aexit = 0
    /\ doc[aarg.session] = "valid"

\* C15: act on a session whose state document is absent or is not valid
\* JSON fails with exit code 1 and forwards no action to the remote run.
C15_ActNeedsState ==
    (apc = "done" /\ aloaded \in {"absent", "partial"})
        => (aexit = 1 /\ ~forwarded)

\* act.py has found a state document that does not parse and has exited 1
C15_Witness ==
    /\ apc = "done" /\ aloaded = "partial" /\ aexit = 1 /\ ~forwarded
    /\ aarg.script = "act.py"

\* the listing visits the directory of session s
ListVisits(s) == tpc = "scan" /\ s \in ttodo /\ s \notin ttodo'

\* C16: an unreadable or invalid state document of one session is fatal
\* only for an invocation that names the session: status without a session
\* id goes on and lists every session whose state is readable, and status
\* with the id of a session whose state is absent or does not parse exits
\* with code 1.
C16_StatusIsolatesBadState ==
    /\ [][\A s \in Sessions : ListVisits(s) =>
            /\ tpc' = "scan" /\ texit' = -1
            /\ listed' = IF sessDir[s] /\ doc[s] = "valid"
                           THEN listed \cup {s} ELSE listed]_vars
    /\ []((tpc = "done" /\ tsess # None /\ tloaded \in {"absent", "partial"})
             => texit = 1)
    /\ []((tpc = "done" /\ tsess # None /\ tloaded = "valid") => texit = 0)

\* a listing has passed over a session whose document does not parse and
\* has collected the other session
C16_Witness ==
    /\ tpc = "scan" /\ tsess = None /\ ttodo = {}
    /\ \E s, u \in Sessions :
          /\ s # u
          /\ doc[s] = "partial" /\ sessDir[s] /\ s \notin listed
          /\ u \in listed

(***************************************************************************)
(* get_observations.py and kradleverse.py: from the lines read to the      *)
(* output printed.                                                         *)
(***************************************************************************)
STATE_FIELDS ==
    {"position", "health", "players", "blocks", "entities", "inventory",
     "run_status", "run_id", "xp", "score", "gamemode", "equipped", "winner",
     "is_alive", "craftable", "time_of_day", "name"}

EXCLUDED_FIELDS ==
    {"task", "observation_id", "time", "run_id", "idle", "biome", "weather",
     "on_ground", "participant_id", "executing", "hunger", "lives"}

\* the length beyond which filter_observation cuts an output
OutputLimit == 500

\* lines a reader finds in the file
MaxLog == 3

\* A JSON value: what it is and, for a text, its length.
Value(kind, len) == [kind |-> kind, len |-> len]
NoneValue == Value("None", 0)
EmptyList == Value("[]", 0)
Text(len) == Value("text", len)

EmptyRec == [f \in {} |-> NoneValue]
Merge(a, b) ==
    [f \in DOMAIN a \cup DOMAIN b |-> IF f \in DOMAIN b THEN b[f] ELSE a[f]]

\* The records the remote service sends: an initial state, a chat message,
\* a game-over and a record of state fields only, each with or without
\* further fields (two of the exclusion set, one of them also a state field,
\* and two empty lists) and with or without an output field.
InitialStateRecord ==
    [event |-> Value("initial_state", 0), health |-> Value("20", 0),
     position |-> Value("x0y65z0", 0)]
ChatRecord == [event |-> Value("chat", 0), message |-> Value("hi", 0)]
GameOverRecord == [event |-> Value("gameover", 0), score |-> Value("5", 0)]
StateRecord == [health |-> Value("18", 0), position |-> Value("x1y65z0", 0)]
BaseRecords == {InitialStateRecord, ChatRecord, GameOverRecord, StateRecord}
ExtraFields ==
    [run_id |-> Value("run", 0), time |-> Value("t", 0), players |-> EmptyList,
     commands |-> EmptyList]
Outputs == {"absent", "None", "short", "long"}
OutputField(out) ==
    CASE out = "absent" -> EmptyRec
      [] out = "None" -> [output |-> NoneValue]
      [] out = "short" -> [output |-> Text(3)]
      [] out = "long" -> [output |-> Text(OutputLimit + 1)]
Record(base, extra, out) ==
    Merge(Merge(base, IF extra THEN ExtraFields ELSE EmptyRec), OutputField(out))
\* a record is sent bare, or with the further fields and any output
Variants ==
    {[extra |-> FALSE, out |-> "absent"]}
        \cup {[extra |-> TRUE, out |-> out] : out \in Outputs}

\* A line of the file: a record (in stream.sse inside a data line of level
\* observation), a line that is not JSON, or (stream.sse) a data line of
\* level init_call.
RecordLine(rec) == [rec |-> rec, json |-> TRUE, level |-> "observation"]
Garbage == [rec |-> EmptyRec, json |-> FALSE, level |-> "none"]
InitCall == [rec |-> EmptyRec, json |-> TRUE, level |-> "init_call"]

\* a filter that lets every field through
KeptAny(field) == TRUE

\* filter_observation, lines 30 and 293: the fields not excluded
Kept(field) == field \notin EXCLUDED_FIELDS

Projected(obs) == [f \in {g \in DOMAIN obs : Kept(g)} |-> obs[f]]

\* Python truth of a value
Truthy(v) == v.kind \notin {"None", "[]"} /\ ~(v.kind = "text" /\ v.len = 0)

\* obs["output"][:500]
Truncated(v) ==
    IF v.kind = "text" /\ v.len > OutputLimit THEN Text(OutputLimit) ELSE v

\* lines 32 and 296: obs["output"][:500] if obs["output"] else None
FilteredOutput(v) == IF Truthy(v) THEN Truncated(v) ELSE NoneValue

\* get_observations.py, line 32: obs["output"] of a record without that
\* key raises KeyError
FilterRaises(obs) == "output" \notin DOMAIN obs

\* get_observations.py filter_observation, lines 28-33, of a record that
\* has an output
filter_observation_log(obs) ==
    Merge(Projected(obs), [output |-> FilteredOutput(obs["output"])])

\* kradleverse.py filter_observation, lines 291-297
filter_observation(obs) ==
    IF "output" \in DOMAIN obs
      THEN Merge(Projected(obs), [output |-> FilteredOutput(obs["output"])])
      ELSE Projected(obs)

\* an extraction that keeps the empty values
extract_event_unskipped(obs) == [f \in DOMAIN obs \ STATE_FIELDS |-> obs[f]]

\* extract_event: the fields outside STATE_FIELDS whose value is neither
\* None nor an empty list
extract_event(obs) ==
    [f \in {g \in DOMAIN obs \ STATE_FIELDS : obs[g].kind \notin {"None", "[]"}}
        |-> obs[f]]

\* an extraction that takes the record whole
extract_current_state_whole(obs) == obs

\* extract_current_state: the fields of STATE_FIELDS
extract_current_state(obs) == [f \in DOMAIN obs \cap STATE_FIELDS |-> obs[f]]

\* a count of every event parsed, init-calls included
TotalEventsParsed(observations, obs_data) == Len(observations)

\* lines 127 and 636: "total_events": len(obs_data)
TotalEvents(observations, obs_data) == Len(obs_data)

\* lines 116 and 611, 622
EmptyOutput ==
    [kind |-> "output", current_state |-> EmptyRec, events |-> <<>>,
     total_events |-> 0]

\* lines 119-129 and 629-638
Output(observations, obs_data) ==
    [kind |-> "output",
     current_state |-> extract_current_state(obs_data[Len(obs_data)]),
     events |-> [i \in 1..Len(obs_data) |-> extract_event(obs_data[i])],
     total_events |-> TotalEvents(observations, obs_data)]

\* the script ends with a traceback
Raised == [kind |-> "raise"]

\* json.loads succeeds on the line
RECURSIVE WellFormed(_)
WellFormed(lines) ==
    IF lines = <<>> THEN <<>>
    ELSE (IF Head(lines).json THEN <<Head(lines)>> ELSE <<>>)
         \o WellFormed(Tail(lines))

\* the records of the data lines of every level
RecordsOfAnyLevel(observations) ==
    [i \in 1..Len(observations) |-> observations[i].rec]

\* the records of the data lines of level observation, lines 615-619
RECURSIVE ObservationRecords(_)
ObservationRecords(observations) ==
    IF observations = <<>> THEN <<>>
    ELSE (IF Head(observations).level = "observation"
            THEN <<Head(observations).rec>> ELSE <<>>)
         \o ObservationRecords(Tail(observations))

FormatScripts == {"get_observations.py", "kradleverse.py"}
otherVars == <<logVars, daemonVars, streamVars, sessVars>>

\* the session is one of the daemon (get_observations.py reads its log)
\* or one of kradleverse.py join (observe reads its stream)
FStart(script) ==
    /\ fscript = None
    /\ fscript' = script
    /\ UNCHANGED <<flines, fread, fclear, fout, otherVars>>

\* a line is added to the file before the reader runs
FAppendLine(line) ==
    /\ fscript # None
    /\ fout = NoOut
    /\ Len(flines) < MaxLog
    /\ flines' = Append(flines, line)
    /\ UNCHANGED <<fscript, fread, fclear, fout, otherVars>>

\* the producer writes a record
FAppend(base, v) == FAppendLine(RecordLine(Record(base, v.extra, v.out)))

\* a line that is not JSON gets into the file
FAppendGarbage == FAppendLine(Garbage)

\* the stream carries the init-call
FAppendInit == fscript = "kradleverse.py" /\ FAppendLine(InitCall)

\* get_observations.py main, lines 113-129, with read_observations, lines
\* 46-62: a KeyError of filter_observation leaves the with-block before the
\* truncation and ends the script
FDrain(clear) ==
    /\ fscript = "get_observations.py"
    /\ fout = NoOut
    /\ fread' = flines
    /\ fclear' = clear
    /\ LET parsed == WellFormed(flines)
       IN IF \E i \in 1..Len(parsed) : FilterRaises(parsed[i].rec)
            THEN fout' = Raised /\ flines' = flines
            ELSE LET observations ==
                        [i \in 1..Len(parsed) |-> filter_observation_log(parsed[i].rec)]
                 IN /\ fout' = IF observations = <<>> THEN EmptyOutput
                                 ELSE Output(observations, observations)
                    /\ flines' = IF clear THEN <<>> ELSE flines
    /\ UNCHANGED <<fscript, otherVars>>

\* kradleverse.py cmd_observe, lines 608-643, on the data lines that lie
\* after the cursor; without --peek they lie before it afterwards
FObserve(peek) ==
    /\ fscript = "kradleverse.py"
    /\ fout = NoOut
    /\ fread' = flines
    /\ fclear' = ~peek
    /\ LET observations == WellFormed(flines)
           records == ObservationRecords(observations)
           obs_data == [i \in 1..Len(records) |-> filter_observation(records[i])]
       IN /\ fout' = IF observations = <<>> \/ obs_data = <<>> THEN EmptyOutput
                       ELSE Output(observations, obs_data)
          /\ flines' = IF peek \/ observations = <<>> THEN flines ELSE <<>>
    /\ UNCHANGED <<fscript, otherVars>>

\* the reader has ended; the file goes on growing
FReturn ==
    /\ fout # NoOut
    /\ fout' = NoOut
    /\ fread' = <<>>
    /\ fclear' = FALSE
    /\ UNCHANGED <<fscript, flines, otherVars>>

InitFormat == LogInit /\ DaemonInit(FALSE) /\ StreamInit /\ RestInit

NextFormat ==
    \/ \E script \in FormatScripts : FStart(script)
    \/ \E base \in BaseRecords, v \in Variants : FAppend(base, v)
    \/ FAppendGarbage
    \/ FAppendInit
    \/ \E clear \in BOOLEAN : FDrain(clear)
    \/ \E peek \in BOOLEAN : FObserve(peek)
    \/ FReturn

SpecFormat == InitFormat /\ [][NextFormat]_vars

(***************************************************************************)
(* Claims on the output of the readers.                                    *)
(***************************************************************************)
\* the three records of the scenario, as lines of the log, in order
Scenario ==
    <<RecordLine(InitialStateRecord), RecordLine(ChatRecord),
      RecordLine(GameOverRecord)>>

\* C17: end to end on the daemon log: after the records {event:
\* initial_state, health: 20, position}, {event: chat, message: hi},
\* {event: gameover, score: 5} were appended, a clearing drain with
\* filter/extract prints current_state.score = 5, total_events = 3 and a
\* last event that has the event field and no score field.
C17_EndToEnd ==
    (fscript = "get_observations.py" /\ fclear /\ fread = Scenario /\ fout # NoOut)
        => /\ fout.kind = "output"
           /\ "score" \in DOMAIN fout.current_state
           /\ fout.current_state["score"] = Value("5", 0)
           /\ fout.total_events = 3
           /\ Len(fout.events) = 3
           /\ "event" \in DOMAIN fout.events[3]
           /\ fout.events[3]["event"] = Value("gameover", 0)
           /\ "score" \notin DOMAIN fout.events[3]

\* the field names of the output are free of the exclusion set
NoExcluded(out) ==
    /\ DOMAIN out.current_state \cap EXCLUDED_FIELDS = {}
    /\ \A i \in 1..Len(out.events) : DOMAIN out.events[i] \cap EXCLUDED_FIELDS = {}

\* C18: no field of the exclusion set appears in the output of observe,
\* neither in current_state nor in any element of events, whatever the
\* input records.
C18_NoExcludedField == fout.kind = "output" => NoExcluded(fout)

\* an observe has printed records all of which came with fields of the
\* exclusion set
C18_Witness ==
    /\ fscript = "kradleverse.py"
    /\ fout.kind = "output"
    /\ fout.total_events = MaxLog
    /\ \A i \in 1..Len(fread) : "run_id" \in DOMAIN fread[i].rec

\* the reader found no observation record in what it read
NoNewRecord ==
    IF fscript = "get_observations.py"
      THEN WellFormed(fread) = <<>>
      ELSE ObservationRecords(WellFormed(fread)) = <<>>

C20_DrainNeverAborts ==
    (fscript = "get_observations.py" /\ fout # NoOut)
        => /\ fout.kind = "output"
           /\ LET records == WellFormed(fread)
              IN /\ Len(fout.events) = Len(records)
                 /\ \A i \in 1..Len(records) :
                       "event" \in DOMAIN records[i].rec =>
                           /\ "event" \in DOMAIN fout.events[i]
                           /\ fout.events[i]["event"] = records[i].rec["event"]
           /\ fclear => flines = <<>>

\* the lines of what the reader read that hold a record for the pipeline:
\* the lines of the log that are JSON, the data lines of the stream that
\* are of level observation
Feeds(line) ==
    line.json /\ (fscript = "kradleverse.py" => line.level = "observation")
FeedCount == Cardinality({i \in 1..Len(fread) : Feeds(fread[i])})
\* the last of them, and the k-th
LatestFed == fread[CHOOSE i \in 1..Len(fread) :
                     Feeds(fread[i]) /\ \A j \in (i + 1)..Len(fread) : ~Feeds(fread[j])].rec
Fed(k) == fread[CHOOSE i \in 1..Len(fread) :
                  /\ Feeds(fread[i])
                  /\ Cardinality({j \in 1..i : Feeds(fread[j])}) = k].rec

\* C25: current_state in the output of observe contains only state-class
\* fields and is taken from the latest record of the batch alone: it holds
\* the state-class fields of that record that are not excluded, with their
\* values, whatever precedes the record in the batch.
C25_CurrentStateFromLatest ==
    fout.kind = "output" =>
        /\ DOMAIN fout.current_state \subseteq STATE_FIELDS
        /\ IF FeedCount = 0 THEN fout.current_state = EmptyRec
           ELSE /\ DOMAIN fout.current_state =
                     (DOMAIN LatestFed \cap STATE_FIELDS) \ EXCLUDED_FIELDS
                /\ \A f \in DOMAIN fout.current_state :
                      fout.current_state[f] = LatestFed[f]

\* a batch whose first record has a health and whose latest record has
\* none and has a score
C25_Witness ==
    /\ fout.kind = "output"
    /\ fout.total_events = MaxLog
    /\ "health" \in DOMAIN Fed(1)
    /\ DOMAIN fout.current_state = {"score"}

\* C26: no element of events contains a state-class field or a field
\* whose value is null or an empty list; a record that has only
\* state-class fields yields an empty event object.
C26_EventsStripped ==
    fout.kind = "output" =>
        \A i \in 1..Len(fout.events) :
            /\ DOMAIN fout.events[i] \cap STATE_FIELDS = {}
            /\ \A f \in DOMAIN fout.events[i] :
                  fout.events[i][f] \notin {NoneValue, EmptyList}
            /\ DOMAIN Fed(i) \subseteq STATE_FIELDS => fout.events[i] = EmptyRec

\* the output holds the empty event of a record of state fields only, and
\* an event of a record that came with a null output and empty lists
C26_Witness ==
    /\ fout.kind = "output"
    /\ \E i, j \in 1..Len(fout.events) :
          /\ Fed(i) = StateRecord
          /\ fout.events[i] = EmptyRec
          /\ "commands" \in DOMAIN Fed(j)
          /\ Fed(j)["output"] = NoneValue

\* C27: only observation-level records feed the pipeline: a stream record
\* of level init_call contributes no element to events, nothing to
\* current_state and is not counted in total_events, while the cursor of a
\* non-peeking observe still advances past it.
C27_OnlyObservationLevel ==
    (fscript = "kradleverse.py" /\ fout # NoOut) =>
        /\ fout.kind = "output"
        /\ fout.total_events = FeedCount
        /\ Len(fout.events) = FeedCount
        /\ FeedCount = 0 => fout.current_state = EmptyRec
        /\ \A i \in 1..Len(fout.events) :
              "event" \in DOMAIN Fed(i) =>
                  /\ "event" \in DOMAIN fout.events[i]
                  /\ fout.events[i]["event"] = Fed(i)["event"]
        /\ (fclear /\ InitCall \in Range(fread)) => flines = <<>>
        /\ ~fclear => flines = fread

\* a non-peeking observe read an init-call between two records
C27_Witness ==
    /\ fscript = "kradleverse.py"
    /\ fclear
    /\ Len(fread) = 3
    /\ fread[2] = InitCall
    /\ fout.kind = "output"
    /\ fout.total_events = 2
    /\ flines = <<>>

====
